---- MODULE Spec2Model ----
(***************************************************************************)
(* A model of simple_kv: the per-tenant SQL authorizer (KvDb._authorize),  *)
(* the tenant store and its key-value operations (lib/kv/kv_db.py), the    *)
(* principal store (lib/kv/kv_mgr.py) and the request handlers (web.py).   *)
(*                                                                         *)
(* Strings of the program are TLA+ strings; Python's None is the string    *)
(* None below, which is no identifier, file name or SQL word of the model. *)
(***************************************************************************)
EXTENDS Integers, Sequences, FiniteSets, TLC

VARIABLES
    az,         \* the last call of KvDb._authorize: the KvDb, the action, the result
    idn,        \* the last call of KvIdentifier.validate: the raw name, the result
    files,      \* save_dir: tenant name -> the tenant's sqlite file
    users,      \* auth.sqlite, table users: set of [id, user, pass]
    perms,      \* auth.sqlite, table users_permissions: set of [uid, perm]
    sessions,   \* auth.sqlite, table users_sessions: set of [uid, sid, expires]
    sid_ctr,    \* how many tokens secrets.token_hex() has handed out
    now,        \* the clock, as a UTC instant
    tz,         \* the host's local-time offset from UTC (fixed for a run)
    resp        \* the last request and its response

vars == <<az, idn, files, users, perms, sessions, sid_ctr, now, tz, resp>>

None == "<None>"

----------------------------------------------------------------------------
(* sqlite3's authorizer action codes and return codes.                     *)

SQLITE_OK == 0
SQLITE_DENY == 1

SQLITE_CREATE_INDEX == 1
SQLITE_CREATE_TABLE == 2
SQLITE_DELETE == 9
SQLITE_DROP_TABLE == 11
SQLITE_INSERT == 18
SQLITE_PRAGMA == 19
SQLITE_READ == 20
SQLITE_SELECT == 21
SQLITE_TRANSACTION == 22
SQLITE_UPDATE == 23
SQLITE_ATTACH == 24
SQLITE_DETACH == 25
SQLITE_ALTER_TABLE == 26
SQLITE_REINDEX == 27
SQLITE_FUNCTION == 31

ActionCodes ==
    { SQLITE_CREATE_INDEX, SQLITE_CREATE_TABLE, SQLITE_DELETE, SQLITE_DROP_TABLE,
      SQLITE_INSERT, SQLITE_PRAGMA, SQLITE_READ, SQLITE_SELECT, SQLITE_TRANSACTION,
      SQLITE_UPDATE, SQLITE_ATTACH, SQLITE_DETACH, SQLITE_ALTER_TABLE,
      SQLITE_REINDEX, SQLITE_FUNCTION }

----------------------------------------------------------------------------
(* Tenant names and the names derived from them.                           *)

TenantNames == {"ta", "tb"}

\* KvDb._real_dbid: f"kv_{dbid.text}"
real_dbid_of(text) == "kv_" \o text

\* KvDb.save_name: f"kv_{dbid.text}.sqlite"
save_name(text) == "kv_" \o text \o ".sqlite"

\* A KvDb object: the fields KvDb.__init__ sets.
KvDbObject(text, enabled) ==
    [dbid |-> text, real_dbid |-> real_dbid_of(text), enable_authorizer |-> enabled]

----------------------------------------------------------------------------
(* KvDb._authorize: the match statement, case by case.  A case whose body  *)
(* does not return ends the match, and the call falls to the deny below.   *)

\* The mutant of the transaction case: the test of op is lost.
authorize_any_transaction(self, action) ==
    LET action_code == action[1]
        arg2 == action[2]
        arg3 == action[3]
    IN  IF ~self.enable_authorizer THEN SQLITE_OK
        ELSE IF action_code = SQLITE_CREATE_INDEX THEN SQLITE_OK
        ELSE IF action_code = SQLITE_CREATE_TABLE /\ arg3 = None THEN SQLITE_OK
        ELSE IF action_code = SQLITE_INSERT /\ arg3 = None THEN SQLITE_OK
        ELSE IF action_code = SQLITE_READ THEN SQLITE_OK
        ELSE IF action_code = SQLITE_SELECT /\ arg2 = None /\ arg3 = None THEN SQLITE_OK
        ELSE IF action_code = SQLITE_TRANSACTION /\ arg3 = None THEN SQLITE_OK
        ELSE IF action_code = SQLITE_UPDATE THEN SQLITE_OK
        ELSE IF action_code = SQLITE_ALTER_TABLE /\ arg2 = self.real_dbid THEN SQLITE_OK
        ELSE IF action_code = SQLITE_FUNCTION /\ arg2 = None
            THEN (IF arg3 \in {"json_extract"} THEN SQLITE_OK ELSE SQLITE_DENY)
        ELSE SQLITE_DENY

\* The mutant of the alter-table case: real_dbid read as a capture pattern.
authorize_any_alter(self, action) ==
    LET action_code == action[1]
        arg2 == action[2]
        arg3 == action[3]
    IN  IF ~self.enable_authorizer THEN SQLITE_OK
        ELSE IF action_code = SQLITE_CREATE_INDEX THEN SQLITE_OK
        ELSE IF action_code = SQLITE_CREATE_TABLE /\ arg3 = None THEN SQLITE_OK
        ELSE IF action_code = SQLITE_INSERT /\ arg3 = None THEN SQLITE_OK
        ELSE IF action_code = SQLITE_READ THEN SQLITE_OK
        ELSE IF action_code = SQLITE_SELECT /\ arg2 = None /\ arg3 = None THEN SQLITE_OK
        ELSE IF action_code = SQLITE_TRANSACTION /\ arg3 = None
            THEN (IF arg2 \in {"BEGIN", "COMMIT", "ROLLBACK"} THEN SQLITE_OK ELSE SQLITE_DENY)
        ELSE IF action_code = SQLITE_UPDATE THEN SQLITE_OK
        ELSE IF action_code = SQLITE_ALTER_TABLE THEN SQLITE_OK
        ELSE IF action_code = SQLITE_FUNCTION /\ arg2 = None
            THEN (IF arg3 \in {"json_extract"} THEN SQLITE_OK ELSE SQLITE_DENY)
        ELSE SQLITE_DENY

\* The mutant that lets ATTACH through.
authorize_attach_allowed(self, action) ==
    LET action_code == action[1]
        arg2 == action[2]
        arg3 == action[3]
    IN  IF ~self.enable_authorizer THEN SQLITE_OK
        ELSE IF action_code = SQLITE_ATTACH THEN SQLITE_OK
        ELSE IF action_code = SQLITE_CREATE_INDEX THEN SQLITE_OK
        ELSE IF action_code = SQLITE_CREATE_TABLE /\ arg3 = None THEN SQLITE_OK
        ELSE IF action_code = SQLITE_INSERT /\ arg3 = None THEN SQLITE_OK
        ELSE IF action_code = SQLITE_READ THEN SQLITE_OK
        ELSE IF action_code = SQLITE_SELECT /\ arg2 = None /\ arg3 = None THEN SQLITE_OK
        ELSE IF action_code = SQLITE_TRANSACTION /\ arg3 = None
            THEN (IF arg2 \in {"BEGIN", "COMMIT", "ROLLBACK"} THEN SQLITE_OK ELSE SQLITE_DENY)
        ELSE IF action_code = SQLITE_UPDATE THEN SQLITE_OK
        ELSE IF action_code = SQLITE_ALTER_TABLE /\ arg2 = self.real_dbid THEN SQLITE_OK
        ELSE IF action_code = SQLITE_FUNCTION /\ arg2 = None
            THEN (IF arg3 \in {"json_extract"} THEN SQLITE_OK ELSE SQLITE_DENY)
        ELSE SQLITE_DENY

_authorize(self, action) ==
    LET action_code == action[1]
        arg2 == action[2]
        arg3 == action[3]
    IN  IF ~self.enable_authorizer THEN SQLITE_OK
        ELSE IF action_code = SQLITE_CREATE_INDEX THEN SQLITE_OK
        ELSE IF action_code = SQLITE_CREATE_TABLE /\ arg3 = None THEN SQLITE_OK
        ELSE IF action_code = SQLITE_INSERT /\ arg3 = None THEN SQLITE_OK
        ELSE IF action_code = SQLITE_READ THEN SQLITE_OK
        ELSE IF action_code = SQLITE_SELECT /\ arg2 = None /\ arg3 = None THEN SQLITE_OK
        ELSE IF action_code = SQLITE_TRANSACTION /\ arg3 = None
            THEN (IF arg2 \in {"BEGIN", "COMMIT", "ROLLBACK"} THEN SQLITE_OK ELSE SQLITE_DENY)
        ELSE IF action_code = SQLITE_UPDATE THEN SQLITE_OK
        ELSE IF action_code = SQLITE_ALTER_TABLE /\ arg2 = self.real_dbid THEN SQLITE_OK
        ELSE IF action_code = SQLITE_FUNCTION /\ arg2 = None
            THEN (IF arg3 \in {"json_extract"} THEN SQLITE_OK ELSE SQLITE_DENY)
        ELSE SQLITE_DENY

----------------------------------------------------------------------------
(* Python and sqlite values.  A value is [t, v]: its type and its text.    *)
(* A JSON number or boolean keeps its digits in v; only the type changes   *)
(* when sqlite3 adapts it or a column's affinity converts it.              *)

PyNone == [t |-> "null", v |-> ""]
PyStr(s) == [t |-> "str", v |-> s]
PyNum(s) == [t |-> "num", v |-> s]
PyBool(b) == [t |-> "bool", v |-> IF b THEN "True" ELSE "False"]

\* web.py JsonValue: str | float | bool | None, the values a put accepts.
JsonValue == {PyStr("a"), PyStr("b"), PyNum("42"), PyBool(TRUE), PyNone}

\* sqlite3's binding of a Python parameter: bool is an int subclass and is
\* bound as the integer 1 or 0.
Bind(value) ==
    IF value.t = "bool" THEN PyNum(IF value.v = "True" THEN "1" ELSE "0") ELSE value

\* A column declared TEXT has TEXT affinity: a numeric value is converted to
\* its text before it is stored; text and NULL are stored as they are.
TextAffinity(value) ==
    IF value.t = "num" THEN PyStr(value.v) ELSE value

NumKeys == 2
Keys == {"k" \o ToString(i) : i \in 1..NumKeys}

----------------------------------------------------------------------------
(* A tenant's sqlite file: its tables (rows are [key, value]) and indexes. *)

TableNames == {"kv", "aux"}
NoTable == [exists |-> FALSE, rows |-> {}]
EmptyTable == [exists |-> TRUE, rows |-> {}]
NoFile == [exists |-> FALSE, tables |-> [n \in TableNames |-> NoTable], indexes |-> {}]
EmptyFile == [exists |-> TRUE, tables |-> [n \in TableNames |-> NoTable], indexes |-> {}]

----------------------------------------------------------------------------
(* SQL statements, as the records the engine below reads.  schema is the   *)
(* schema name a statement qualifies its table with ("main" when it gives  *)
(* none); name is an index, function, pragma, alias or file name.          *)

Sql(k, schema, table, key, value, name) ==
    [value |-> value, k |-> k, schema |-> schema, table |-> table, key |-> key,
     name |-> name]

\* KvDb.init_schema: CREATE TABLE IF NOT EXISTS kv (key TEXT PRIMARY KEY, value TEXT NOT NULL)
\* The mutant of KvDb.init_schema that makes the table anew on every opening.
InitSchemaSql_create_anew == Sql("create_table", "main", "kv", None, PyNone, None)

InitSchemaSql == Sql("create_table_if_not_exists", "main", "kv", None, PyNone, None)
\* _KvDbSelect.one: SELECT value FROM kv WHERE key = ?
SelectOneSql(key) == Sql("select", "main", "kv", key, PyNone, None)
\* _KvDbInsert.one: INSERT OR REPLACE INTO kv (key, value) VALUES (?, ?)
InsertOneSql(key, value) == Sql("insert_or_replace", "main", "kv", key, value, None)
\* _KvDbDelete.one: DELETE FROM kv WHERE key = ?
DeleteOneSql(key) == Sql("delete", "main", "kv", key, PyNone, None)

BeginSql == Sql("begin", "main", None, None, PyNone, None)
CommitSql == Sql("commit", "main", None, None, PyNone, None)
RollbackSql == Sql("rollback", "main", None, None, PyNone, None)

\* The authorizer callbacks sqlite makes while it compiles a statement, in
\* order: (action code, arg2, arg3), as sqlite3 passes them to the callback.
Compile(stmt) ==
    CASE stmt.k = "select" ->
            << <<SQLITE_SELECT, None, None>>, <<SQLITE_READ, stmt.table, "value">>,
               <<SQLITE_READ, stmt.table, "key">> >>
      [] stmt.k = "select_fn" ->
            << <<SQLITE_SELECT, None, None>>, <<SQLITE_FUNCTION, None, stmt.name>> >>
      [] stmt.k \in {"insert", "insert_or_replace"} ->
            << <<SQLITE_INSERT, stmt.table, None>> >>
      [] stmt.k = "update" ->
            << <<SQLITE_UPDATE, stmt.table, "value">>, <<SQLITE_READ, stmt.table, "key">> >>
      [] stmt.k = "delete" ->
            << <<SQLITE_DELETE, stmt.table, None>>, <<SQLITE_READ, stmt.table, "key">> >>
      [] stmt.k = "create_table" ->
            << <<SQLITE_INSERT, "sqlite_master", None>>,
               <<SQLITE_CREATE_TABLE, stmt.table, None>>,
               <<SQLITE_UPDATE, "sqlite_master", "type">>,
               <<SQLITE_UPDATE, "sqlite_master", "name">>,
               <<SQLITE_UPDATE, "sqlite_master", "tbl_name">>,
               <<SQLITE_UPDATE, "sqlite_master", "rootpage">>,
               <<SQLITE_UPDATE, "sqlite_master", "sql">>,
               <<SQLITE_READ, "sqlite_master", "ROWID">> >>
      [] stmt.k = "create_table_if_not_exists" ->
            << <<SQLITE_INSERT, "sqlite_master", None>>,
               <<SQLITE_CREATE_TABLE, stmt.table, None>> >>
      [] stmt.k = "create_index" ->
            << <<SQLITE_INSERT, "sqlite_master", None>>,
               <<SQLITE_CREATE_INDEX, stmt.name, stmt.table>>,
               <<SQLITE_READ, stmt.table, "value">>,
               <<SQLITE_INSERT, "sqlite_master", None>>,
               <<SQLITE_REINDEX, stmt.name, None>> >>
      [] stmt.k = "drop_table" ->
            << <<SQLITE_DELETE, "sqlite_master", None>>,
               <<SQLITE_DROP_TABLE, stmt.table, None>>,
               <<SQLITE_DELETE, stmt.table, None>> >>
      [] stmt.k = "alter_table" ->
            << <<SQLITE_ALTER_TABLE, stmt.schema, stmt.table>>,
               <<SQLITE_READ, "sqlite_master", "sql">>,
               <<SQLITE_UPDATE, "sqlite_master", "sql">> >>
      [] stmt.k = "attach" -> << <<SQLITE_ATTACH, stmt.name, None>> >>
      [] stmt.k = "detach" -> << <<SQLITE_DETACH, stmt.name, None>> >>
      [] stmt.k = "pragma" -> << <<SQLITE_PRAGMA, stmt.name, None>> >>
      [] stmt.k = "vacuum" -> << <<SQLITE_ATTACH, "", None>> >>
      [] stmt.k = "begin" -> << <<SQLITE_TRANSACTION, "BEGIN", None>> >>
      [] stmt.k = "commit" -> << <<SQLITE_TRANSACTION, "COMMIT", None>> >>
      [] stmt.k = "rollback" -> << <<SQLITE_TRANSACTION, "ROLLBACK", None>> >>

\* The statements python's sqlite3 opens a transaction for before it runs them.
IsDml(stmt) == stmt.k \in {"insert", "insert_or_replace", "update", "delete"}

NamesTable(stmt) ==
    stmt.k \in {"select", "insert", "insert_or_replace", "update", "delete",
                "create_table", "create_table_if_not_exists", "create_index",
                "drop_table", "alter_table"}

----------------------------------------------------------------------------
(* A connection and what one request has done on it.                       *)
(*   conn: db (the KvDb whose _authorize is called), authorizer (whether   *)
(*         set_authorizer was called on it), main (the tenant whose file   *)
(*         it opened), origin (who wrote the SQL it runs)                  *)
(*   st:   fs (every tenant file), attached (<<alias, tenant>> pairs),     *)
(*         in_txn and saved (the open transaction and the files it rolls   *)
(*         back to), err, rows (the last result set), log (the rejected    *)
(*         actions KV_LOG.warning wrote), io (the tenants whose file a     *)
(*         statement read or wrote), enf (for each statement run: who      *)
(*         wrote it and whether _authorize was enforcing then)             *)

Conn(db, authorizer, origin) ==
    [db |-> db, authorizer |-> authorizer, main |-> db.dbid, origin |-> origin]

Start(fs) ==
    [fs |-> fs, attached |-> {}, in_txn |-> FALSE, saved |-> fs, err |-> FALSE,
     rows |-> {}, log |-> <<>>, io |-> {}, enf |-> {}]

Enforcing(conn) == conn.authorizer /\ conn.db.enable_authorizer

\* The callback sqlite makes for one action: the connection's authorizer, if one
\* is installed.
Callback(conn, action) ==
    IF conn.authorizer THEN _authorize(conn.db, action) ELSE SQLITE_OK

Denied(conn, stmt) ==
    LET acts == Compile(stmt)
    IN  {i \in 1..Len(acts) : Callback(conn, acts[i]) = SQLITE_DENY}

FirstDenied(conn, stmt) ==
    LET acts == Compile(stmt)
        d == Denied(conn, stmt)
    IN  acts[CHOOSE i \in d : \A j \in d : i <= j]

\* The tenant whose file a schema name stands for on this connection.
SchemaTarget(conn, st, schema) ==
    IF schema = "main" THEN {conn.main}
    ELSE {p[2] : p \in {q \in st.attached : q[1] = schema}}

\* "no such table", "table already exists" and the like: the statement names
\* something that the connection cannot resolve.
Unresolved(conn, st, stmt) ==
    /\ NamesTable(stmt)
    /\ LET tgt == SchemaTarget(conn, st, stmt.schema)
       IN  \/ tgt = {}
           \/ \E t \in tgt :
                LET exists == stmt.table \in TableNames /\ st.fs[t].tables[stmt.table].exists
                IN  CASE stmt.k = "create_table" -> exists \/ stmt.table \notin TableNames
                      [] stmt.k = "create_table_if_not_exists" -> stmt.table \notin TableNames
                      [] OTHER -> ~exists

\* The file a file name of save_dir belongs to.
FileTenant(name) == {t \in TenantNames : save_name(t) = name}

\* What a statement does once sqlite has compiled it.
Effect(conn, st, stmt) ==
    LET tgt == SchemaTarget(conn, st, stmt.schema)
        t == CHOOSE x \in tgt : TRUE
        rows == st.fs[t].tables[stmt.table].rows
        v == TextAffinity(Bind(stmt.value))
        hit == {r \in rows : stmt.key = None \/ r.key = stmt.key}
        fail == [st EXCEPT !.err = TRUE]
        write(new) == [st EXCEPT !.fs[t].tables[stmt.table].rows = new, !.io = @ \cup {t}]
    IN  CASE stmt.k = "select" -> [st EXCEPT !.rows = hit, !.io = @ \cup {t}]
          [] stmt.k = "select_fn" -> st
          [] stmt.k = "insert" ->
                IF v.t = "null" \/ (\E r \in rows : r.key = stmt.key) THEN fail
                ELSE write(rows \cup {[key |-> stmt.key, value |-> v]})
          [] stmt.k = "insert_or_replace" ->
                IF v.t = "null" THEN fail
                ELSE write((rows \ hit) \cup {[key |-> stmt.key, value |-> v]})
          [] stmt.k = "update" ->
                IF v.t = "null" /\ hit # {} THEN fail
                ELSE write((rows \ hit) \cup {[r EXCEPT !.value = v] : r \in hit})
          [] stmt.k = "delete" -> write(rows \ hit)
          [] stmt.k = "create_table" ->
                [st EXCEPT !.fs[t].tables[stmt.table] = EmptyTable, !.io = @ \cup {t}]
          [] stmt.k = "create_table_if_not_exists" ->
                IF st.fs[t].tables[stmt.table].exists THEN st
                ELSE [st EXCEPT !.fs[t].tables[stmt.table] = EmptyTable, !.io = @ \cup {t}]
          [] stmt.k = "create_index" ->
                IF stmt.name \in st.fs[t].indexes THEN fail
                ELSE [st EXCEPT !.fs[t].indexes = @ \cup {stmt.name}, !.io = @ \cup {t}]
          [] stmt.k = "drop_table" ->
                [st EXCEPT !.fs[t].tables[stmt.table] = NoTable, !.io = @ \cup {t}]
          [] stmt.k = "alter_table" -> [st EXCEPT !.io = @ \cup {t}]
          [] stmt.k = "attach" ->
                IF st.in_txn \/ (\E p \in st.attached : p[1] = stmt.schema) THEN fail
                ELSE LET ft == FileTenant(stmt.name)
                     IN  [st EXCEPT
                            !.attached = @ \cup {<<stmt.schema, f>> : f \in ft},
                            !.fs = [x \in TenantNames |->
                                      IF x \in ft /\ ~st.fs[x].exists THEN EmptyFile
                                      ELSE st.fs[x]],
                            !.io = @ \cup ft]
          [] stmt.k = "detach" ->
                IF \E p \in st.attached : p[1] = stmt.name
                THEN [st EXCEPT !.attached = {p \in @ : p[1] # stmt.name}]
                ELSE fail
          [] stmt.k = "pragma" -> st
          [] stmt.k = "vacuum" -> IF st.in_txn THEN fail ELSE st
          [] stmt.k = "begin" ->
                IF st.in_txn THEN fail ELSE [st EXCEPT !.in_txn = TRUE, !.saved = st.fs]
          [] stmt.k = "commit" ->
                IF st.in_txn THEN [st EXCEPT !.in_txn = FALSE] ELSE fail
          [] stmt.k = "rollback" ->
                IF st.in_txn THEN [st EXCEPT !.in_txn = FALSE, !.fs = st.saved] ELSE fail

\* sqlite prepares and steps one statement: a name it cannot resolve or an action
\* the authorizer denies makes it fail with nothing done; _authorize has logged
\* the denied action.  After an error nothing more runs.
Exec(conn, st, stmt) ==
    IF st.err THEN st
    ELSE LET st1 == [st EXCEPT !.rows = {},
                               !.enf = @ \cup {<<conn.origin, Enforcing(conn)>>}]
         IN  IF Unresolved(conn, st1, stmt) THEN [st1 EXCEPT !.err = TRUE]
             ELSE IF Denied(conn, stmt) # {}
                 THEN [st1 EXCEPT !.err = TRUE, !.log = Append(@, FirstDenied(conn, stmt))]
             ELSE Effect(conn, st1, stmt)

\* Connection.execute(sql): python compiles the statement and, for INSERT, UPDATE,
\* DELETE and REPLACE outside a transaction, issues BEGIN before it steps it.
Execute(conn, st, stmt) ==
    LET begins == /\ ~st.err /\ ~Unresolved(conn, st, stmt) /\ Denied(conn, stmt) = {}
                  /\ IsDml(stmt) /\ ~st.in_txn
    IN  Exec(conn, IF begins THEN Exec(conn, st, BeginSql) ELSE st, stmt)

\* Connection.executescript(sql): commits an open transaction, then runs the
\* statements one after the other with no implicit BEGIN, up to the first error.
RECURSIVE RunStatements(_, _, _)
RunStatements(conn, st, stmts) ==
    IF stmts = <<>> THEN st
    ELSE RunStatements(conn, Exec(conn, st, Head(stmts)), Tail(stmts))

ExecuteScript(conn, st, stmts) ==
    RunStatements(conn, IF st.in_txn THEN Exec(conn, st, CommitSql) ELSE st, stmts)

\* "with conn:" on leaving: commit() when the body ended normally, rollback()
\* when it raised.
ConnExit(conn, st) ==
    IF st.err
    THEN [st EXCEPT !.fs = IF st.in_txn THEN st.saved ELSE st.fs, !.in_txn = FALSE]
    ELSE IF st.in_txn THEN Exec(conn, st, CommitSql) ELSE st

\* The files once the connection is dropped: sqlite rolls back a transaction
\* that is still open.
Finish(st) == IF st.in_txn THEN st.saved ELSE st.fs

----------------------------------------------------------------------------
(* KvIdentifier, DbWrapper, KvDb and KvMgr.                                *)

\* The raw names a request may carry, and the characters of each.
RawNames == TenantNames \cup {"t1"}
NameChars(raw) ==
    CASE raw = "ta" -> <<"t", "a">>
      [] raw = "tb" -> <<"t", "b">>
      [] raw = "t1" -> <<"t", "1">>

LowerLetters ==
    <<"a", "b", "c", "d", "e", "f", "g", "h", "i", "j", "k", "l", "m",
      "n", "o", "p", "q", "r", "s", "t", "u", "v", "w", "x", "y", "z">>
UpperLetters ==
    <<"A", "B", "C", "D", "E", "F", "G", "H", "I", "J", "K", "L", "M",
      "N", "O", "P", "Q", "R", "S", "T", "U", "V", "W", "X", "Y", "Z">>

\* Four characters outside ASCII, each written as one token.
CapitalIDot == "<U+0130>"
DotlessI == "<U+0131>"
LongS == "<U+017F>"
KelvinSign == "<U+212A>"

\* The lower case the regex engine gives a character of a str pattern.
SreLower(c) ==
    IF \E i \in 1..Len(UpperLetters) : UpperLetters[i] = c
    THEN LowerLetters[CHOOSE i \in 1..Len(UpperLetters) : UpperLetters[i] = c]
    ELSE IF c = KelvinSign THEN "k"
    ELSE IF c = CapitalIDot THEN "i"
    ELSE c

\* The characters the engine also takes for "i" and "s" when it ignores case.
SreIgnoreCaseFixes == {DotlessI, LongS}

\* [^a-z_] under re.IGNORECASE: the characters the class matches.
NotIdentifierChar(c) ==
    ~ \/ \E i \in 1..Len(LowerLetters) : LowerLetters[i] = SreLower(c)
      \/ c = "_"
      \/ c \in SreIgnoreCaseFixes

\* re.search(r"[^a-z_]", raw, re.IGNORECASE): the positions it can match at.
re_search(chars) == {i \in 1..Len(chars) : NotIdentifierChar(chars[i])}

\* KvIdentifier.validate on the characters of raw: it raises when the search
\* matches and returns KvIdentifier(raw) when it does not.
KvIdentifier_validate(chars) == [ok |-> re_search(chars) = {}, text |-> chars]

validate(raw) == KvIdentifier_validate(NameChars(raw)).ok

\* The str of a sequence of characters.
RECURSIVE Join(_)
Join(chars) == IF chars = <<>> THEN "" ELSE Head(chars) \o Join(Tail(chars))

\* The mutant of KvDb.connect that installs no authorizer.
connect_without_authorizer(self, origin) == Conn(self, FALSE, origin)

\* KvDb.connect: super().connect(), then conn.set_authorizer(self._authorize).
connect(self, origin) == Conn(self, TRUE, origin)

\* DbWrapper.__init__(fp, missing_ok): a missing file is an error unless
\* missing_ok, in which case it is created; then init_schema runs on a connection
\* of self.connect() and is committed.
DbWrapper__init__(self, fs, missing_ok) ==
    IF ~fs[self.dbid].exists /\ ~missing_ok
    THEN [ok |-> FALSE, st |-> Start(fs)]
    ELSE LET fs1 == [fs EXCEPT ![self.dbid] = IF @.exists THEN @ ELSE EmptyFile]
             conn == connect(self, "init_schema")
         IN  [ok |-> TRUE, st |-> ConnExit(conn, Execute(conn, Start(fs1), InitSchemaSql))]

\* What a constructor call leaves: whether it returned, the KvDb, the files, and
\* what ran with which enforcement.
Constructed(self, r) ==
    [ok |-> r.ok /\ ~r.st.err, db |-> self, fs |-> Finish(r.st), enf |-> r.st.enf]

\* The mutant of KvDb.__init__ that leaves enable_authorizer off.
KvDb__init__never_enabled(text, fs, missing_ok) ==
    Constructed(KvDbObject(text, FALSE),
                DbWrapper__init__(KvDbObject(text, FALSE), fs, missing_ok))

\* KvDb.__init__: enable_authorizer is False while DbWrapper.__init__ runs
\* init_schema, and True from then on.
KvDb__init__(text, fs, missing_ok) ==
    Constructed(KvDbObject(text, TRUE),
                DbWrapper__init__(KvDbObject(text, FALSE), fs, missing_ok))

\* KvMgr.db(raw_name, missing_ok): validate raises on a bad name.
KvMgr_db(raw_name, fs, missing_ok) ==
    IF ~validate(raw_name)
    THEN [ok |-> FALSE, db |-> KvDbObject(raw_name, FALSE), fs |-> fs, enf |-> {}]
    ELSE KvDb__init__(raw_name, fs, missing_ok)

\* The mutant of KvMgr.db_exists that finds no file.
db_exists_never(raw_name, fs) == FALSE

\* KvMgr.db_exists(raw_name), for a name that validates.
db_exists(raw_name, fs) == raw_name \in TenantNames /\ fs[raw_name].exists

----------------------------------------------------------------------------
(* KvUserDb: the principal store.                                          *)

GUEST_USER_ID == 1
GUEST_USER == "anon"
ADMIN_PERM == "admin"

\* bcrypt.hashpw / bcrypt.checkpw, as opaque: a hash matches the password it was
\* made from and no other; the empty hash of the guest is no valid hash.
hashpw(raw_password) == "bcrypt:" \o raw_password
checkpw(raw_password, hash) == hash = hashpw(raw_password)

Guest == [id |-> GUEST_USER_ID, user |-> GUEST_USER, pass |-> ""]

\* The mutant of KvUserDb.init_schema that inserts no guest user.
KvUserDb_init_schema_no_guest(us) == us

\* KvUserDb.init_schema: INSERT OR IGNORE of the guest user (ignored when the id
\* or the name is taken).
KvUserDb_init_schema(us) ==
    IF \E u \in us : u.id = GUEST_USER_ID \/ u.user = GUEST_USER THEN us
    ELSE us \cup {Guest}

read_perm(dbid) == dbid \o "_read"
write_perm(dbid) == dbid \o "_write"

\* KvUserDb.check_perm
check_perm(ps, uid, perm) == [uid |-> uid, perm |-> perm] \in ps

\* KvUserDb.check_kv_perms
check_kv_perms(ps, uid, dbid) ==
    [read |-> check_perm(ps, uid, read_perm(dbid)),
     write |-> check_perm(ps, uid, write_perm(dbid))]

\* KvUserDb.register_kv_table_user: INSERT OR REPLACE of the grants asked for.
register_kv_table_user(ps, dbid, uid, read, write) ==
    ps \cup (IF read THEN {[uid |-> uid, perm |-> read_perm(dbid)]} ELSE {})
       \cup (IF write THEN {[uid |-> uid, perm |-> write_perm(dbid)]} ELSE {})

----------------------------------------------------------------------------
(* Timestamps.  An instant is a number of ticks; isoformat() writes it as  *)
(* fixed-width digits, and an aware datetime adds its offset "+00:00",     *)
(* which is the one character "+" here.  Python and sqlite compare the     *)
(* texts character by character, a proper prefix being the smaller.        *)

MaxTzOffset == 2
TzOffsets == {0 - MaxTzOffset, 0, MaxTzOffset}

Digits(t) == <<ToString(t \div 10), ToString(t % 10)>>

\* datetime.datetime.now(tz=datetime.timezone.utc) + duration, .isoformat()
IsoUtc(t) == Digits(t) \o <<"+">>

\* datetime.datetime.now().isoformat(): the host's local time, no offset written
IsoLocal(t, offset) == Digits(t + offset)

Ord(c) == IF c = "+" THEN 43 ELSE 48 + (CHOOSE d \in 0..9 : ToString(d) = c)

RECURSIVE StrLess(_, _)
StrLess(a, b) ==
    IF b = <<>> THEN FALSE
    ELSE IF a = <<>> THEN TRUE
    ELSE IF Ord(Head(a)) # Ord(Head(b)) THEN Ord(Head(a)) < Ord(Head(b))
    ELSE StrLess(Tail(a), Tail(b))

\* The NULL of the column users_sessions.expires.
NullText == <<None>>

\* login's seconds: int | None.
Seconds(n) == [n |-> n, none |-> FALSE]
NoSeconds == [n |-> 0, none |-> TRUE]
Truthy(seconds) == ~seconds.none /\ seconds.n # 0

\* The n-th token of secrets.token_hex(): unguessable, never repeated.
Token(n) == "s" \o ToString(n)

NoUid == 0

\* KvUserDb.check_sid: the user of the session, unless its expiry text is below
\* the text of the local time.
check_sid(ss, sid, t, offset) ==
    LET found == {r \in ss : r.sid = sid}
    IN  IF found = {} THEN NoUid
        ELSE LET r == CHOOSE x \in found : TRUE
             IN  IF r.expires # NullText /\ StrLess(r.expires, IsoLocal(t, offset))
                 THEN NoUid
                 ELSE r.uid

\* KvUserDb.vacuum_sessions: DELETE FROM users_sessions WHERE expires < ? (a NULL
\* expiry is below nothing).
vacuum_sessions(ss, t, offset) ==
    {r \in ss : ~(r.expires # NullText /\ StrLess(r.expires, IsoLocal(t, offset)))}

NoSession == [uid |-> NoUid, sid |-> None, expires |-> NullText, duration |-> NoSeconds]

\* KvUserDb.login.  outcome: "none" (it returned None), "raised" (checkpw raised
\* on a stored hash that is no bcrypt hash) or "session".
login(us, ss, ctr, username, raw_password, seconds, t, offset) ==
    LET found == {u \in us : u.user = username}
        r == CHOOSE u \in found : TRUE
        sid == Token(ctr + 1)
        expires == IF Truthy(seconds) THEN IsoUtc(t + seconds.n) ELSE NullText
        unchanged(o) == [outcome |-> o, session |-> NoSession, sessions |-> ss, ctr |-> ctr]
    IN  IF found = {} THEN unchanged("none")
        ELSE IF r.pass = "" THEN unchanged("raised")
        ELSE IF ~checkpw(raw_password, r.pass) THEN unchanged("none")
        ELSE [outcome |-> "session",
              session |-> [uid |-> r.id, sid |-> sid, expires |-> expires,
                           duration |-> seconds],
              sessions |-> vacuum_sessions(
                               ss \cup {[uid |-> r.id, sid |-> sid, expires |-> expires]},
                               t, offset),
              ctr |-> ctr + 1]

\* The mutant of KvUserDb.register_user on a users table without UNIQUE (user).
register_user_no_unique(us, username, raw_password) ==
    [ok |-> TRUE,
     users |-> us \cup {[id |-> (IF us = {} THEN 0
                                 ELSE CHOOSE n \in {u.id : u \in us} :
                                          \A u \in us : u.id <= n) + 1,
                         user |-> username, pass |-> hashpw(raw_password)]}]

\* KvUserDb.register_user: INSERT INTO users (user, pass); the id is the next
\* rowid, and UNIQUE (user) fails the insert of a name that is taken.
MaxId(us) == IF us = {} THEN 0 ELSE CHOOSE n \in {u.id : u \in us} : \A u \in us : u.id <= n
register_user(us, username, raw_password) ==
    IF \E u \in us : u.user = username THEN [ok |-> FALSE, users |-> us]
    ELSE [ok |-> TRUE,
          users |-> us \cup {[id |-> MaxId(us) + 1, user |-> username,
                              pass |-> hashpw(raw_password)]}]

\* web.py _check_kv_perms: the guest's grant, else the session user's grant, else
\* the session user's admin grant.  sid is None when the request has no header.
_check_kv_perms(ps, ss, dbid, perm_type, sid, t, offset) ==
    LET guest_perms == check_kv_perms(ps, GUEST_USER_ID, dbid)
        uid == check_sid(ss, sid, t, offset)
        user_perms == check_kv_perms(ps, uid, dbid)
    IN  \/ guest_perms[perm_type]
        \/ /\ sid # None /\ sid # ""
           /\ uid # NoUid
           /\ (user_perms[perm_type] \/ check_perm(ps, uid, ADMIN_PERM))

----------------------------------------------------------------------------
(* The request handlers of web.py.  Each is one step: no handler awaits.   *)
(* resp is the request and what it answered: status is "ok", "unauthorized"*)
(* (NotAuthorizedException) or "error" (any other exception).              *)

\* The arguments of the admin table command: the tables and the three flags.
NoArgs == [tables |-> {}, remove |-> FALSE, no_read |-> FALSE, no_write |-> FALSE]

NoResp ==
    [dbid |-> None, value |-> PyNone, exists |-> FALSE, rows |-> {}, key |-> None,
     attached |-> {}, log |-> <<>>, io |-> {}, enf |-> {}, sid |-> None,
     username |-> None, session |-> NoSession, op |-> "none", items |-> <<>>,
     sql |-> <<>>, password |-> None, at |-> 0, status |-> "none", out |-> PyNone,
     created |-> FALSE, args |-> NoArgs,
     cascaded |-> [perms |-> {}, sessions |-> {}], trace |-> <<>>]

Request(op, dbid, sid) == [NoResp EXCEPT !.op = op, !.dbid = dbid, !.sid = sid, !.at = now]

\* What the SQL of a request left behind, added to its response.
WithSql(r, ctor, st) ==
    [r EXCEPT !.status = IF st.err THEN "error" ELSE "ok",
              !.log = st.log, !.io = st.io, !.enf = ctor.enf \cup st.enf,
              !.attached = st.attached]

StoreUnchanged == UNCHANGED <<az, idn, perms, sessions, sid_ctr, now, tz>>

\* _KvDbSelect.one: the dict it returns for the rows of its SELECT.
SelectOneResult(rows) ==
    IF rows = {} THEN [exists |-> FALSE, value |-> PyNone]
    ELSE [exists |-> TRUE, value |-> (CHOOSE r \in rows : TRUE).value]

\* conn.execute for each statement in turn, on one connection
RECURSIVE ExecuteEach(_, _, _)
ExecuteEach(conn, st, stmts) ==
    IF stmts = <<>> THEN st
    ELSE ExecuteEach(conn, Execute(conn, st, Head(stmts)), Tail(stmts))

\* "with db.connect() as conn:" around the SQL of a handler, which it runs
\* with conn.execute or with conn.executescript.
WithConnect(db, fs, stmts, how) ==
    LET conn == connect(db, "caller")
    IN  ConnExit(conn, IF how = "executescript"
                       THEN ExecuteScript(conn, Start(fs), stmts)
                       ELSE ExecuteEach(conn, Start(fs), stmts))

\* mgr.db(dbid).select.one(key), as a later get would run it on these files.
SelectOneOf(ctor, st) ==
    IF ~ctor.ok \/ st.err THEN [ok |-> FALSE, exists |-> FALSE, value |-> PyNone]
    ELSE [ok |-> TRUE] @@ SelectOneResult(st.rows)
SelectOneOn(ctor, key) ==
    SelectOneOf(ctor, WithConnect(ctor.db, ctor.fs, <<SelectOneSql(key)>>, "execute"))
select_one(fs, dbid, key) == SelectOneOn(KvMgr_db(dbid, fs, FALSE), key)

\* The answer of a handler whose SQL ran: the files it leaves, and for a get the
\* dict of select.one, for /execute the rows of fetchall().
Served(req, ctor, st) ==
    /\ files' = Finish(st)
    /\ resp' = [WithSql(req, ctor, st) EXCEPT
                  !.exists = req.op = "get" /\ ~st.err /\ SelectOneResult(st.rows).exists,
                  !.out = IF req.op = "get" /\ ~st.err
                          THEN SelectOneResult(st.rows).value ELSE PyNone,
                  !.rows = IF req.op = "execute_sql" /\ ~st.err THEN st.rows ELSE {}]

\* What a handler does to the principal store and to the tenant files, in
\* the order of its calls: "init_schema" (KvMgr()), "check_sid", "check_perm"
\* and "check_kv_perms" (reads of the principal store), "validate"
\* (KvIdentifier.validate) and "open" (the tenant file is looked up or opened).
DbTrace(raw_name) ==
    <<"validate">> \o (IF validate(raw_name) THEN <<"open">> ELSE <<>>)
HandlerTrace(dbid, allowed, db_first, ok) ==
    IF db_first
    THEN <<"init_schema">> \o DbTrace(dbid)
             \o (IF ok THEN <<"check_kv_perms">> ELSE <<>>)
    ELSE <<"init_schema", "check_kv_perms">>
             \o (IF allowed THEN DbTrace(dbid) ELSE <<>>)

\* The body the handlers of a tenant share.  ctor is what mgr.db(dbid) did;
\* db_first says that the handler calls mgr.db(dbid) before it checks the
\* permission (set, set_bulk, delete) and not after (get, execute, script).
Handler(req, allowed, db_first, ctor, stmts, how) ==
    IF ~db_first /\ ~allowed
    THEN resp' = [req EXCEPT !.status = "unauthorized",
                             !.trace = HandlerTrace(req.dbid, allowed, db_first, ctor.ok)]
         /\ UNCHANGED files
    ELSE IF ~ctor.ok
    THEN resp' = [req EXCEPT !.status = "error", !.enf = ctor.enf,
                             !.trace = HandlerTrace(req.dbid, allowed, db_first, ctor.ok)]
         /\ files' = ctor.fs
    ELSE IF ~allowed
    THEN resp' = [req EXCEPT !.status = "unauthorized", !.enf = ctor.enf,
                             !.trace = HandlerTrace(req.dbid, allowed, db_first, ctor.ok)]
         /\ files' = ctor.fs
    ELSE Served([req EXCEPT !.trace = HandlerTrace(req.dbid, allowed, db_first, ctor.ok)],
                ctor, WithConnect(ctor.db, ctor.fs, stmts, how))

\* get_kv_item
GetKvItem(dbid, key, sid) ==
    /\ users' = KvUserDb_init_schema(users)
    /\ StoreUnchanged
    /\ Handler([Request("get", dbid, sid) EXCEPT !.key = key],
               _check_kv_perms(perms, sessions, dbid, "read", sid, now, tz),
               FALSE, KvMgr_db(dbid, files, FALSE), <<SelectOneSql(key)>>, "execute")

\* set_kv_item
SetKvItem(dbid, key, value, sid) ==
    /\ users' = KvUserDb_init_schema(users)
    /\ StoreUnchanged
    /\ Handler([Request("set", dbid, sid) EXCEPT !.key = key, !.value = value],
               _check_kv_perms(perms, sessions, dbid, "write", sid, now, tz),
               TRUE, KvMgr_db(dbid, files, FALSE), <<InsertOneSql(key, value)>>,
               "execute")

\* set_kv_bulk: db.insert.one for each item, on one connection
SetKvBulk(dbid, items, sid) ==
    /\ users' = KvUserDb_init_schema(users)
    /\ StoreUnchanged
    /\ Handler([Request("set_bulk", dbid, sid) EXCEPT !.items = items],
               _check_kv_perms(perms, sessions, dbid, "write", sid, now, tz),
               TRUE, KvMgr_db(dbid, files, FALSE),
               [i \in 1..Len(items) |-> InsertOneSql(items[i][1], items[i][2])],
               "execute")

\* delete_kv_item
DeleteKvItem(dbid, key, sid) ==
    /\ users' = KvUserDb_init_schema(users)
    /\ StoreUnchanged
    /\ Handler([Request("delete", dbid, sid) EXCEPT !.key = key],
               _check_kv_perms(perms, sessions, dbid, "write", sid, now, tz),
               TRUE, KvMgr_db(dbid, files, FALSE), <<DeleteOneSql(key)>>, "execute")

\* execute_sql: conn.execute(data.sql).fetchall(), for a caller who may read
ExecuteSql(dbid, stmt, sid) ==
    /\ users' = KvUserDb_init_schema(users)
    /\ StoreUnchanged
    /\ Handler([Request("execute_sql", dbid, sid) EXCEPT !.sql = <<stmt>>],
               _check_kv_perms(perms, sessions, dbid, "read", sid, now, tz),
               FALSE, KvMgr_db(dbid, files, FALSE), <<stmt>>, "execute")

\* The mutant of execute_sql_script that asks for the write check alone.
ExecuteSqlScript_write_only(dbid, stmts, sid) ==
    /\ users' = KvUserDb_init_schema(users)
    /\ StoreUnchanged
    /\ Handler([Request("execute_sql_script", dbid, sid) EXCEPT !.sql = stmts],
               _check_kv_perms(perms, sessions, dbid, "write", sid, now, tz),
               FALSE, KvMgr_db(dbid, files, FALSE), stmts, "executescript")

\* execute_sql_script: conn.executescript(data.sql), for a caller who may read
\* and write
ExecuteSqlScript(dbid, stmts, sid) ==
    /\ users' = KvUserDb_init_schema(users)
    /\ StoreUnchanged
    /\ Handler([Request("execute_sql_script", dbid, sid) EXCEPT !.sql = stmts],
               /\ _check_kv_perms(perms, sessions, dbid, "read", sid, now, tz)
               /\ _check_kv_perms(perms, sessions, dbid, "write", sid, now, tz),
               FALSE, KvMgr_db(dbid, files, FALSE), stmts, "executescript")

\* create_kv_table, from the point where it makes the file: mgr.db(name,
\* missing_ok=True), then the creator's grants and the guest's.
CreateKvFile(req, uid, ctor, allow_guest_read, allow_guest_write) ==
    IF ~ctor.ok
    THEN resp' = [req EXCEPT !.status = "error", !.enf = ctor.enf]
         /\ files' = ctor.fs /\ UNCHANGED perms
    ELSE /\ files' = ctor.fs
         /\ perms' = register_kv_table_user(
                         register_kv_table_user(perms, req.dbid, uid, TRUE, TRUE),
                         req.dbid, GUEST_USER_ID, allow_guest_read, allow_guest_write)
         /\ resp' = [req EXCEPT !.status = "ok", !.created = TRUE, !.enf = ctor.enf]

\* create_kv_table
CreateKvTable(name, allow_guest_read, allow_guest_write, sid) ==
    LET uid == check_sid(sessions, sid, now, tz)
        is_admin == uid # NoUid /\ check_perm(perms, uid, ADMIN_PERM)
        req == [Request("create_kv", name, sid) EXCEPT
                  !.trace = <<"init_schema", "check_sid">>
                                \o (IF uid # NoUid THEN <<"check_perm">> ELSE <<>>)
                                \o (IF is_admin THEN DbTrace(name) ELSE <<>>)]
    IN  /\ users' = KvUserDb_init_schema(users)
        /\ UNCHANGED <<az, idn, sessions, sid_ctr, now, tz>>
        /\ IF ~is_admin
           THEN resp' = [req EXCEPT !.status = "unauthorized"] /\ UNCHANGED <<files, perms>>
           ELSE IF ~validate(name)
           THEN resp' = [req EXCEPT !.status = "error"] /\ UNCHANGED <<files, perms>>
           ELSE IF db_exists(name, files)
           THEN resp' = [req EXCEPT !.status = "ok"] /\ UNCHANGED <<files, perms>>
           ELSE CreateKvFile(req, uid, KvMgr_db(name, files, TRUE),
                             allow_guest_read, allow_guest_write)

MaxTokens == 2
MaxTime == 5
MaxTtl == 2

\* create_kv_table when a statement of register_kv_table_user raises (the
\* principal store is locked by another process, or cannot be written): the
\* tenant file is made by mgr.db(name, missing_ok=True) before, the with block
\* of the principal store's connection rolls the grants back, and nothing
\* removes the file.
GrantsRaise(req, ctor) ==
    /\ ctor.ok
    /\ files' = ctor.fs
    /\ resp' = [req EXCEPT !.status = "error", !.enf = ctor.enf]
    /\ UNCHANGED perms
CreateKvTableGrantsRaise(name, sid) ==
    LET uid == check_sid(sessions, sid, now, tz)
    IN  /\ uid # NoUid /\ check_perm(perms, uid, ADMIN_PERM)
        /\ validate(name) /\ ~db_exists(name, files)
        /\ users' = KvUserDb_init_schema(users)
        /\ UNCHANGED <<az, idn, sessions, sid_ctr, now, tz>>
        /\ GrantsRaise([Request("create_kv", name, sid) EXCEPT
                          !.trace = <<"init_schema", "check_sid", "check_perm">>
                                        \o DbTrace(name)],
                       KvMgr_db(name, files, TRUE))

\* The largest id the users table of the model gives out.
MaxUid == 3

\* web.py login
Login(username, password, seconds) ==
    LET req == [Request("login", None, None) EXCEPT
                  !.username = username, !.password = password]
        us == KvUserDb_init_schema(users)
        r == login(us, sessions, sid_ctr, username, password, seconds, now, tz)
    IN  /\ r.outcome = "session" => sid_ctr < MaxTokens
        /\ users' = us
        /\ sessions' = r.sessions
        /\ sid_ctr' = r.ctr
        /\ resp' = [req EXCEPT
                      !.status = CASE r.outcome = "session" -> "ok"
                                   [] r.outcome = "none" -> "unauthorized"
                                   [] OTHER -> "error",
                      !.session = r.session]
        /\ UNCHANGED <<az, idn, files, perms, now, tz>>

\* admin.py _register_user, the create command
AdminCreateUser(username, password) ==
    LET req == [Request("admin_create", None, None) EXCEPT
                  !.username = username, !.password = password]
        us == KvUserDb_init_schema(users)
        r == register_user(us, username, password)
    IN  /\ password # "" /\ r.ok => MaxId(us) < MaxUid
        /\ users' = IF password = "" THEN us ELSE r.users
        /\ resp' = [req EXCEPT !.status = IF password # "" /\ r.ok THEN "ok" ELSE "error"]
        /\ UNCHANGED <<az, idn, files, perms, sessions, sid_ctr, now, tz>>

\* DbWrapper.connect, as the specification has it: the connection enforces the
\* foreign keys of the schema.
DbWrapper_connect_foreign_keys == TRUE

\* The mutant of OnDeleteCascade on a schema whose foreign keys take no action.
OnDeleteNoAction(rows, ids) == rows

\* FOREIGN KEY (uid) REFERENCES users (id) ON DELETE CASCADE, of
\* users_permissions and of users_sessions: the rows left when the users with
\* these ids are deleted.
OnDeleteCascade(rows, ids) ==
    IF DbWrapper_connect_foreign_keys THEN {r \in rows : r.uid \notin ids} ELSE rows

\* admin.py _register_user, the delete command: DELETE FROM users WHERE user = ?
AdminDeleteUser(username) ==
    LET req == [Request("admin_delete", None, None) EXCEPT !.username = username]
        us == KvUserDb_init_schema(users)
        gone == {u \in us : u.user = username}
    IN  /\ users' = us \ gone
        /\ perms' = OnDeleteCascade(perms, {u.id : u \in gone})
        /\ sessions' = OnDeleteCascade(sessions, {u.id : u \in gone})
        /\ resp' = [req EXCEPT !.status = "ok",
                                !.cascaded = [perms |-> perms \ perms',
                                              sessions |-> sessions \ sessions']]
        /\ UNCHANGED <<az, idn, files, sid_ctr, now, tz>>

\* KvUserDb.find_uid_by_username: the id, or NoUid for None.
find_uid_by_username(us, username) ==
    IF \E u \in us : u.user = username
    THEN (CHOOSE u \in us : u.user = username).id
    ELSE NoUid

\* admin.py _set_admin: INSERT OR REPLACE of the user's admin grant, or its
\* DELETE with --remove; it raises for a user that does not exist.
AdminSetAdmin(username, remove) ==
    LET req == [Request("admin_admin", None, None) EXCEPT
                  !.username = username, !.args = [NoArgs EXCEPT !.remove = remove]]
        us == KvUserDb_init_schema(users)
        uid == find_uid_by_username(us, username)
        row == [uid |-> uid, perm |-> ADMIN_PERM]
    IN  /\ users' = us
        /\ perms' = IF uid = NoUid THEN perms
                    ELSE IF remove THEN perms \ {row}
                    ELSE perms \cup {row}
        /\ resp' = [req EXCEPT !.status = IF uid = NoUid THEN "error" ELSE "ok"]
        /\ UNCHANGED <<az, idn, files, sessions, sid_ctr, now, tz>>

\* The mutant of _set_kv_perms whose "Disabling write" deletes the read grant too.
_set_kv_perms_write_drops_read(ps, uid, tables, remove, no_read, no_write) ==
    LET reads == {[uid |-> uid, perm |-> read_perm(dbid)] : dbid \in tables}
        writes == {[uid |-> uid, perm |-> write_perm(dbid)] : dbid \in tables}
        admins == {[uid |-> uid, perm |-> ADMIN_PERM] : dbid \in tables}
    IN  IF ~remove
        THEN ps \cup (IF no_read THEN {} ELSE reads)
                \cup (IF no_write THEN {} ELSE writes)
        ELSE (ps \ (IF no_read THEN {} ELSE admins))
                \ (IF no_write THEN {} ELSE writes \cup reads)

\* admin.py _set_kv_perms, the loop over args.tables for a user that exists:
\* "Enabling read" and "Enabling write" are INSERT OR REPLACE of read_perm(dbid)
\* and write_perm(dbid); "Disabling write" deletes write_perm(dbid) and
\* "Disabling read" deletes the row [uid, mgr.ADMIN_PERM].
_set_kv_perms(ps, uid, tables, remove, no_read, no_write) ==
    LET reads == {[uid |-> uid, perm |-> read_perm(dbid)] : dbid \in tables}
        writes == {[uid |-> uid, perm |-> write_perm(dbid)] : dbid \in tables}
        admins == {[uid |-> uid, perm |-> ADMIN_PERM] : dbid \in tables}
    IN  IF ~remove
        THEN ps \cup (IF no_read THEN {} ELSE reads)
                \cup (IF no_write THEN {} ELSE writes)
        ELSE (ps \ (IF no_read THEN {} ELSE admins))
                \ (IF no_write THEN {} ELSE writes)

\* admin.py main with the table command
AdminSetKvPerms(username, tables, remove, no_read, no_write) ==
    LET req == [Request("admin_table", None, None) EXCEPT
                  !.username = username,
                  !.args = [tables |-> tables, remove |-> remove,
                            no_read |-> no_read, no_write |-> no_write]]
        us == KvUserDb_init_schema(users)
        uid == find_uid_by_username(us, username)
    IN  /\ users' = us
        /\ perms' = IF uid = NoUid THEN perms
                    ELSE _set_kv_perms(perms, uid, tables, remove, no_read, no_write)
        /\ resp' = [req EXCEPT !.status = IF uid = NoUid THEN "error" ELSE "ok"]
        /\ UNCHANGED <<az, idn, files, sessions, sid_ctr, now, tz>>

\* Time passes.
Tick ==
    /\ now < MaxTime
    /\ now' = now + 1
    /\ UNCHANGED <<az, idn, files, users, perms, sessions, sid_ctr, tz, resp>>

\* KvMgr.db and KvMgr.db_exists call KvIdentifier.validate(raw_name) and, when
\* it returns, derive the file name KvDb.save_name of the identifier.
NoIdentifier == [text |-> <<>>, save_name |-> None, raw |-> <<>>, ok |-> FALSE,
                 called |-> FALSE]

ValidateName ==
    /\ ~idn.called
    /\ LET r == KvIdentifier_validate(idn.raw)
       IN  idn' = [idn EXCEPT !.called = TRUE, !.ok = r.ok, !.text = r.text,
                              !.save_name = IF r.ok THEN save_name(Join(r.text))
                                            ELSE None]
    /\ UNCHANGED <<az, files, users, perms, sessions, sid_ctr, now, tz, resp>>

\* sqlite calls the authorizer of a connection of this KvDb for one action.
NoCall ==
    [self |-> KvDbObject("ta", TRUE), action |-> <<SQLITE_SELECT, None, None>>,
     result |-> SQLITE_OK, called |-> FALSE]

CallAuthorize ==
    /\ ~az.called
    /\ az' = [az EXCEPT !.result = _authorize(az.self, az.action), !.called = TRUE]
    /\ UNCHANGED <<idn, files, users, perms, sessions, sid_ctr, now, tz, resp>>

----------------------------------------------------------------------------
(* The specifications.                                                     *)

\* The store as KvMgr() first makes it: the guest user, nothing else.
InitStore ==
    /\ az = NoCall
    /\ idn = NoIdentifier
    /\ files = [t \in TenantNames |-> NoFile]
    /\ users = {Guest}
    /\ perms = {}
    /\ sessions = {}
    /\ sid_ctr = 0
    /\ now = MaxTzOffset
    /\ resp = NoResp

\* The store after "admin create alice pw1", "admin admin alice" and a login of
\* alice with no duration, on a host whose local time is UTC.
Alice == [id |-> GUEST_USER_ID + 1, user |-> "alice", pass |-> hashpw("pw1")]
InitProvisioned ==
    /\ az = NoCall
    /\ idn = NoIdentifier
    /\ files = [t \in TenantNames |-> NoFile]
    /\ users = {Guest, Alice}
    /\ perms = {[uid |-> Alice.id, perm |-> ADMIN_PERM]}
    /\ sessions = {[uid |-> Alice.id, sid |-> Token(1), expires |-> NullText]}
    /\ sid_ctr = 1
    /\ now = MaxTzOffset
    /\ tz = 0
    /\ resp = NoResp

\* The sid header of a request: absent, alice's token, or a token nobody holds.
Sids == {None, Token(1), "bogus"}

\* (1) KvDb._authorize as a function of the KvDb and the action.
ActionArgs ==
    {None, "", "kv", "main", "value", "BEGIN", "COMMIT", "ROLLBACK", "RELEASE",
     "json_extract", "upper"}
        \cup {real_dbid_of(t) : t \in TenantNames}
        \cup {save_name(t) : t \in TenantNames}

InitAuthorize ==
    /\ az \in {[NoCall EXCEPT !.self = KvDbObject(dbid, enabled),
                              !.action = <<code, arg2, arg3>>] :
                 dbid \in TenantNames, enabled \in BOOLEAN, code \in ActionCodes,
                 arg2 \in ActionArgs, arg3 \in ActionArgs}
    /\ idn = NoIdentifier
    /\ files = [t \in TenantNames |-> NoFile]
    /\ users = {Guest}
    /\ perms = {}
    /\ sessions = {}
    /\ sid_ctr = 0
    /\ now = MaxTzOffset
    /\ tz = 0
    /\ resp = NoResp
NextAuthorize == CallAuthorize
SpecAuthorize == InitAuthorize /\ [][NextAuthorize]_vars

\* (2) Raw SQL on the tenants' connections: alice, an admin, creates tenants
\* and submits statements and scripts on them.
OtherAlias == "o"
AttachSql(file) == Sql("attach", OtherAlias, None, None, PyNone, file)
CreateIndexSql == Sql("create_index", "main", "kv", None, PyNone, "ix")
JsonExtractSql == Sql("select_fn", "main", None, None, PyNone, "json_extract")
InsertSql(schema) == Sql("insert", schema, "kv", "k1", PyStr("x"), None)
SelectAllSql(schema) == Sql("select", schema, "kv", None, PyNone, None)
OtherFiles(dbid) == {save_name(t) : t \in TenantNames \ {dbid}}

\* SQL a caller may POST to /execute on tenant dbid: one statement.
SqlStatements(dbid) ==
    {SelectOneSql("k1"), SelectAllSql(OtherAlias), JsonExtractSql,
     Sql("select_fn", "main", None, None, PyNone, "upper"),
     InsertSql("main"),
     Sql("update", "main", "kv", "k1", PyStr("x"), None),
     DeleteOneSql("k1"),
     Sql("create_table", "main", "aux", None, PyNone, None),
     CreateIndexSql,
     Sql("drop_table", "main", "kv", None, PyNone, None),
     Sql("alter_table", "main", "kv", None, PyNone, None),
     Sql("detach", "main", None, None, PyNone, OtherAlias),
     Sql("pragma", "main", None, None, PyNone, "journal_mode"),
     Sql("vacuum", "main", None, None, PyNone, None),
     BeginSql, CommitSql}
        \cup {AttachSql(f) : f \in OtherFiles(dbid)}

\* SQL a caller may POST to /execute_script: up to MaxScriptLen statements.
MaxScriptLen == 2
ScriptStatements(dbid) ==
    {InsertSql("main"), InsertSql(OtherAlias), SelectAllSql(OtherAlias)}
        \cup {AttachSql(f) : f \in OtherFiles(dbid)}
Scripts(dbid) == UNION {[1..n -> ScriptStatements(dbid)] : n \in 1..MaxScriptLen}

NextSql ==
    \/ \E name \in RawNames, sid \in Sids : CreateKvTable(name, FALSE, FALSE, sid)
    \/ \E dbid \in TenantNames, sid \in Sids : GetKvItem(dbid, "k1", sid)
    \/ \E dbid \in TenantNames : \E stmt \in SqlStatements(dbid) :
            ExecuteSql(dbid, stmt, Token(1))
    \/ \E dbid \in TenantNames : \E stmts \in Scripts(dbid) :
            ExecuteSqlScript(dbid, stmts, Token(1))
SpecSql == InitProvisioned /\ [][NextSql]_vars

\* (3) The key-value operations on one tenant: alice creates it, and anyone
\* puts, gets and deletes.
KvTenant == "ta"
MaxBulk == 2
BulkValues == {PyStr("b"), PyNone}
BulkItems == UNION {[1..n -> Keys \X BulkValues] : n \in 1..MaxBulk}

NextKv ==
    \/ \E allow_guest_read \in BOOLEAN, sid \in Sids :
            CreateKvTable(KvTenant, allow_guest_read, FALSE, sid)
    \/ \E key \in Keys, value \in JsonValue, sid \in Sids :
            SetKvItem(KvTenant, key, value, sid)
    \/ \E items \in BulkItems, sid \in Sids : SetKvBulk(KvTenant, items, sid)
    \/ \E key \in Keys, sid \in Sids : GetKvItem(KvTenant, key, sid)
    \/ \E key \in Keys, sid \in Sids : DeleteKvItem(KvTenant, key, sid)
SpecKv == InitProvisioned /\ [][NextKv]_vars

\* (4) Users and sessions on a host whose local time is tz ticks off UTC: the
\* admin command creates users, they log in, and time passes.
InitSession == InitStore /\ tz \in TzOffsets
Usernames == {"alice", "bob"}
Passwords == {"pw1", "pw2"}
Durations == {NoSeconds} \cup {Seconds(n) : n \in 0..MaxTtl}

NextSession ==
    \/ \E password \in Passwords \cup {""} : AdminCreateUser("alice", password)
    \/ \E username \in Usernames \cup {GUEST_USER}, password \in Passwords,
          seconds \in Durations : Login(username, password, seconds)
    \/ Tick
SpecSession == InitSession /\ [][NextSession]_vars

----------------------------------------------------------------------------
(* The properties.                                                         *)

\* The rows of the decision table of the allow-list, as the design states them.
AllowListRow(self, action) ==
    LET kind == action[1]
        primary == action[2]
        secondary == action[3]
    IN  \/ kind = SQLITE_CREATE_INDEX
        \/ kind = SQLITE_CREATE_TABLE /\ secondary = None
        \/ kind = SQLITE_INSERT
        \/ kind = SQLITE_READ
        \/ kind = SQLITE_SELECT /\ primary = None /\ secondary = None
        \/ kind = SQLITE_TRANSACTION /\ primary \in {"BEGIN", "COMMIT", "ROLLBACK"}
        \/ kind = SQLITE_UPDATE
        \/ kind = SQLITE_ALTER_TABLE /\ primary = "kv_" \o self.dbid
        \/ kind = SQLITE_FUNCTION /\ secondary = "json_extract"

\* C1: with the authorizer enabled, _authorize denies every action that matches
\* no row of the allow-list; attach, detach, pragma, drop table, vacuum (sqlite
\* asks for it as an attach of the file ""), a transaction action whose op is
\* not BEGIN, COMMIT or ROLLBACK, and a function other than json_extract are
\* denied.
C1_DenyOutsideAllowList ==
    (az.called /\ az.self.enable_authorizer) =>
        /\ ~AllowListRow(az.self, az.action) => az.result = SQLITE_DENY
        /\ az.action[1] \in {SQLITE_ATTACH, SQLITE_DETACH, SQLITE_PRAGMA,
                             SQLITE_DROP_TABLE} => az.result = SQLITE_DENY
        /\ (az.action[1] = SQLITE_TRANSACTION
                /\ az.action[2] \notin {"BEGIN", "COMMIT", "ROLLBACK"})
            => az.result = SQLITE_DENY
        /\ (az.action[1] = SQLITE_FUNCTION /\ az.action[3] # "json_extract")
            => az.result = SQLITE_DENY

C1_Witness ==
    /\ az.called /\ az.self.enable_authorizer
    /\ az.action = <<SQLITE_ATTACH, save_name("tb"), None>>
    /\ az.result = SQLITE_DENY

\* C5: with the authorizer enabled, an alter-table action is allowed if and only
\* if its primary object is "kv_" followed by the identifier of the tenant the
\* KvDb was made for.
C5_AlterOwnNameOnly ==
    (az.called /\ az.self.enable_authorizer /\ az.action[1] = SQLITE_ALTER_TABLE) =>
        (az.result = SQLITE_OK <=> az.action[2] = "kv_" \o az.self.dbid)

C5_Witness ==
    /\ az.called /\ az.self.enable_authorizer
    /\ az.self.dbid = "ta"
    /\ az.action = <<SQLITE_ALTER_TABLE, "kv_ta", "kv">>
    /\ az.result = SQLITE_OK

\* The requests that carry caller-supplied SQL.
SqlOps == {"execute_sql", "execute_sql_script"}

\* C2: tenant isolation.  A request that runs caller-supplied SQL (a statement
\* or a script) on a connection of tenant A reads and writes no file but A's,
\* attaches no file, returns only rows of A's table, and leaves the file of every
\* other tenant B as it was.
C2_TenantIsolation ==
    [][\A b \in TenantNames :
          (resp'.op \in SqlOps /\ b # resp'.dbid) =>
              /\ files'[b] = files[b]
              /\ b \notin resp'.io
              /\ \A x \in resp'.attached : x[2] # b
              /\ resp'.rows \subseteq files[resp'.dbid].tables["kv"].rows]_vars

C2_Witness ==
    /\ resp.op = "execute_sql_script" /\ resp.dbid = "ta"
    /\ resp.sql = <<AttachSql(save_name("tb")), SelectAllSql(OtherAlias)>>
    /\ resp.status = "error"
    /\ files["tb"].tables["kv"].rows # {}
    /\ files["ta"].tables["kv"].rows # files["tb"].tables["kv"].rows

\* C3: an ATTACH DATABASE submitted on a connection of an existing tenant fails:
\* the request ends in a statement error, the authorizer having rejected the
\* attach action; nothing is attached; and when the attach is the first
\* statement no file changes and select.one of every tenant and key returns
\* what it returned before.
C3_AttachAlwaysFails ==
    [][(/\ resp'.op \in SqlOps
        /\ files[resp'.dbid].exists
        /\ \E i \in 1..Len(resp'.sql) : resp'.sql[i].k = "attach") =>
            /\ resp'.status = "error"
            /\ resp'.attached = {}
            /\ Head(resp'.sql).k = "attach" =>
                /\ resp'.log = <<<<SQLITE_ATTACH, Head(resp'.sql).name, None>>>>
                /\ files' = files
                /\ \A t \in TenantNames, k \in Keys :
                        select_one(files', t, k) = select_one(files, t, k)]_vars

C3_Witness ==
    /\ resp.op = "execute_sql" /\ resp.dbid = "ta"
    /\ resp.sql = <<AttachSql(save_name("tb"))>>
    /\ resp.status = "error"
    /\ resp.log = <<<<SQLITE_ATTACH, save_name("tb"), None>>>>
    /\ select_one(files, "ta", "k1").exists
    /\ files["tb"].exists

\* C4: raw SQL that creates an index, inserts a row or calls json_extract is
\* never denied: the authorizer rejects no action of such a statement.
C4_NeverDenied ==
    (/\ resp.op = "execute_sql"
     /\ resp.status # "unauthorized"
     /\ Head(resp.sql) \in {CreateIndexSql, InsertSql("main"), JsonExtractSql})
        => resp.log = <<>>

\* C6: a statement the caller supplied always ran with the authorizer installed
\* and enabled, and the only statements that ran with enforcement off are those
\* of init_schema, run by the constructor.
C6_CallerAlwaysEnforced ==
    \A e \in resp.enf : e[2] <=> e[1] = "caller"

C6_Witness ==
    /\ resp.op \in SqlOps
    /\ resp.enf = {<<"init_schema", FALSE>>, <<"caller", TRUE>>}
    /\ resp.status = "ok"

\* A request on an existing tenant by a caller who holds the permission.
Reached(op) ==
    /\ resp.op = op
    /\ resp.status # "unauthorized"
    /\ files[resp.dbid].exists

\* C7: for a caller holding write permission, delete(key) completes without
\* error and a get(key) issued afterwards returns exists = false.
C7_DeleteWorks ==
    Reached("delete") =>
        /\ resp.status = "ok"
        /\ select_one(files, resp.dbid, resp.key) =
                [ok |-> TRUE, exists |-> FALSE, value |-> PyNone]

\* C8: for every key and every value the request layer accepts, put(key, value)
\* completes without error and get(key) then returns exists = true with the
\* value that was put; no tenant holds two rows with the same key.
C8_PutThenGet ==
    /\ Reached("set") =>
        /\ resp.status = "ok"
        /\ select_one(files, resp.dbid, resp.key) =
                [ok |-> TRUE, exists |-> TRUE, value |-> resp.value]
    /\ \A t \in TenantNames : \A r1, r2 \in files[t].tables["kv"].rows :
            r1.key = r2.key => r1 = r2

\* C9: whatever the host's offset from UTC, the session of the last login is
\* accepted by check_sid at every instant before created-at + ttl and refused at
\* every instant after it when its ttl is positive, and accepted at every later
\* instant when its ttl is null or zero.
C9_ExpiresAtCreatedPlusTtl ==
    (resp.op = "login" /\ resp.status = "ok") =>
        LET s == resp.session
            uid == check_sid(sessions, s.sid, now, tz)
        IN  IF Truthy(s.duration)
            THEN /\ now < resp.at + s.duration.n => uid = s.uid
                 /\ now > resp.at + s.duration.n => uid = NoUid
            ELSE uid = s.uid

\* C10: a login with the username and password of a registered user returns a
\* session whose token check_sid maps to that user's id; a login with a wrong
\* password or an unknown username returns None, adds no session and leaves the
\* users, grants and sessions as they were.
C10_LoginOutcome ==
    [][(resp'.op = "login" /\ now' = now /\ resp'.username # GUEST_USER) =>
          LET registered == {u \in users : /\ u.user = resp'.username
                                           /\ checkpw(resp'.password, u.pass)}
          IN  IF registered # {}
              THEN /\ resp'.status = "ok"
                   /\ check_sid(sessions', resp'.session.sid, now', tz')
                        \in {u.id : u \in registered}
              ELSE /\ resp'.status = "unauthorized"
                   /\ resp'.session = NoSession
                   /\ <<users', perms', sessions'>> = <<users, perms, sessions>>]_vars

-----------------------------------------------------------------------------
(* (5) The admin commands that grant and revoke, on the provisioned store.  *)

AdminUsernames == {GUEST_USER, "alice", "bob"}

NextGrants ==
    \/ \E username \in AdminUsernames, tables \in SUBSET TenantNames,
          remove \in BOOLEAN, no_read \in BOOLEAN, no_write \in BOOLEAN :
          AdminSetKvPerms(username, tables, remove, no_read, no_write)
    \/ \E username \in AdminUsernames, remove \in BOOLEAN :
          AdminSetAdmin(username, remove)
SpecGrants == InitProvisioned /\ [][NextGrants]_vars

\* The admin table command that succeeded: its user and its arguments.
TableStep == resp'.op = "admin_table" /\ resp'.status = "ok"
TableUid == find_uid_by_username(users', resp'.username)

\* C11: the table command that grants only write makes the user's write check
\* true for each table named, the one that revokes only write makes it false,
\* and neither changes the user's read check of any table; check_kv_perms
\* reports the two grants each on its own.
C11_WriteGrantFrame ==
    [][TableStep /\ resp'.args.no_read /\ ~resp'.args.no_write =>
         /\ \A dbid \in resp'.args.tables :
                check_kv_perms(perms', TableUid, dbid).write = ~resp'.args.remove
         /\ \A dbid \in TenantNames :
                /\ check_kv_perms(perms', TableUid, dbid).read
                       = check_kv_perms(perms, TableUid, dbid).read
                /\ check_kv_perms(perms', TableUid, dbid).read
                       = check_perm(perms', TableUid, read_perm(dbid))]_vars

\* Write was revoked from a user who holds read of the same table, after both
\* had been granted.
C11_Witness ==
    /\ resp.op = "admin_table" /\ resp.status = "ok"
    /\ resp.args.remove /\ resp.args.no_read /\ ~resp.args.no_write
    /\ \E dbid \in resp.args.tables :
           LET r == check_kv_perms(perms, find_uid_by_username(users, resp.username), dbid)
           IN  r.read /\ ~r.write

\* The grants a table command names: read and write of each table, less the
\* ones --no-read and --no-write leave out.
Asked(uid, args) ==
    (IF args.no_read THEN {}
     ELSE {[uid |-> uid, perm |-> read_perm(dbid)] : dbid \in args.tables})
        \cup (IF args.no_write THEN {}
              ELSE {[uid |-> uid, perm |-> write_perm(dbid)] : dbid \in args.tables})

\* C12: the table command that revokes only read deletes exactly the user's
\* read grant of each table named and leaves every other grant as it was, the
\* user's admin grant and the grants of other users included.
C12_RevokeReadExact ==
    [][TableStep /\ resp'.args.remove /\ ~resp'.args.no_read /\ resp'.args.no_write =>
         perms' = perms \ Asked(TableUid, resp'.args)]_vars

\* C13: a grant of grants already held leaves the grant set as it was, with
\* one record for each; a revoke of grants not held changes nothing; the same
\* for the admin grant of the admin command.
C13_GrantRevokeIdempotent ==
    [][/\ TableStep /\ ~resp'.args.remove =>
            /\ perms' = perms \cup Asked(TableUid, resp'.args)
            /\ \A g \in Asked(TableUid, resp'.args) :
                   Cardinality({r \in perms' : r.uid = g.uid /\ r.perm = g.perm}) = 1
       /\ TableStep /\ resp'.args.remove
              /\ Asked(TableUid, resp'.args) \cap perms = {} => perms' = perms
       /\ resp'.op = "admin_admin" /\ resp'.status = "ok" =>
            LET g == [uid |-> find_uid_by_username(users', resp'.username),
                      perm |-> ADMIN_PERM]
            IN  perms' = IF resp'.args.remove THEN perms \ {g} ELSE perms \cup {g}]_vars

-----------------------------------------------------------------------------
(* (6) The admin commands that create and delete users, with logins.        *)

InitUsers == InitStore /\ tz = 0

NextUsers ==
    \/ \E username \in AdminUsernames : AdminCreateUser(username, "pw1")
    \/ \E username \in AdminUsernames : AdminDeleteUser(username)
    \/ \E username \in AdminUsernames, remove \in BOOLEAN :
          AdminSetAdmin(username, remove)
    \/ \E username \in AdminUsernames : Login(username, "pw1", NoSeconds)
    \/ \E password \in Passwords \cup {""} : Login(GUEST_USER, password, NoSeconds)
SpecUsers == InitUsers /\ [][NextUsers]_vars

\* Every grant and every session is of a user in the users table.
GrantsAndSessionsHaveUsers ==
    \A r \in perms \cup {[uid |-> x.uid, perm |-> x.sid] : x \in sessions} :
        \E u \in users : u.id = r.uid

\* The users a delete command removes, and the tokens of their sessions.
Deleted == {u \in users : u.user = resp'.username}
FormerTokens == {x.sid : x \in {y \in sessions : y.uid \in {u.id : u \in Deleted}}}

UniqueUsernames == \A u, v \in users : u.user = v.user => u = v

\* C18: registering a username that is taken fails and leaves that user's
\* record, every grant and every session as they were; no two users share a
\* username.
C18_DuplicateUserFails ==
    /\ []UniqueUsernames
    /\ [][resp'.op = "admin_create"
              /\ (\E u \in users : u.user = resp'.username) =>
             /\ resp'.status = "error"
             /\ \A u \in users : u \in users'
             /\ \A u \in users' : u.user = resp'.username => u \in users
             /\ perms' = perms
             /\ sessions' = sessions]_vars

\* The create command failed on the name of a user who holds a grant and a
\* session.
C18_Witness ==
    /\ resp.op = "admin_create" /\ resp.status = "error"
    /\ \E u \in users :
           /\ u.user = resp.username
           /\ [uid |-> u.id, perm |-> ADMIN_PERM] \in perms
           /\ \E x \in sessions : x.uid = u.id

-----------------------------------------------------------------------------
(* (7) KvIdentifier.validate and KvDb.save_name as functions of the raw name. *)

MaxNameLen == 2

\* The characters of the raw names: letters of both cases, "_", a digit, a path
\* separator and the four characters outside ASCII.
NameAlphabet == {"a", "T", "_", "1", "/", CapitalIDot, DotlessI, LongS, KelvinSign}
RawStrings == UNION {[1..n -> NameAlphabet] : n \in 0..MaxNameLen}

InitIdentifier ==
    /\ az = NoCall
    /\ idn \in {[NoIdentifier EXCEPT !.raw = chars] : chars \in RawStrings}
    /\ files = [t \in TenantNames |-> NoFile]
    /\ users = {Guest}
    /\ perms = {}
    /\ sessions = {}
    /\ sid_ctr = 0
    /\ now = MaxTzOffset
    /\ tz = 0
    /\ resp = NoResp

NextIdentifier == ValidateName
SpecIdentifier == InitIdentifier /\ [][NextIdentifier]_vars

\* The characters of [A-Za-z_].
AsciiIdentifierChar(c) ==
    \/ \E i \in 1..Len(LowerLetters) : c = LowerLetters[i] \/ c = UpperLetters[i]
    \/ c = "_"

\* str.lower of a name over [A-Za-z_].
AsciiLower(chars) ==
    [i \in 1..Len(chars) |->
        IF \E j \in 1..Len(UpperLetters) : UpperLetters[j] = chars[i]
        THEN LowerLetters[CHOOSE j \in 1..Len(UpperLetters) : UpperLetters[j] = chars[i]]
        ELSE chars[i]]

\* C14: validate fails for every raw name with a character outside [A-Za-z_]
\* and succeeds for every name over those characters, returning the name
\* unchanged, so that validating the text of the result succeeds with the same
\* text.
C14_ValidateAlphabet ==
    idn.called =>
        /\ idn.ok <=> \A i \in 1..Len(idn.raw) : AsciiIdentifierChar(idn.raw[i])
        /\ idn.ok => /\ idn.text = idn.raw
                     /\ KvIdentifier_validate(idn.text) = [ok |-> TRUE, text |-> idn.text]

\* C15: validate rejects the empty string, so no file name is derived from an
\* empty identifier.
C15_EmptyNameRejected ==
    idn.called /\ idn.raw = <<>> => ~idn.ok /\ idn.save_name = None

\* C16: the file name of a valid name is the prefix, the lower-cased name and
\* the suffix, so that names differing only in case have one file name.
C16_SaveNameCaseFolded ==
    idn.called /\ idn.ok /\ (\A i \in 1..Len(idn.raw) : AsciiIdentifierChar(idn.raw[i])) =>
        idn.save_name = "kv_" \o Join(AsciiLower(idn.raw)) \o ".sqlite"

-----------------------------------------------------------------------------
(* (8) Scripts by callers whose grants the admin changes.                   *)

\* The provisioned store with a second user, bob, who holds no grant and has
\* logged in with no duration.
Bob == [id |-> Alice.id + 1, user |-> "bob", pass |-> hashpw("pw2")]
InitScript ==
    /\ az = NoCall
    /\ idn = NoIdentifier
    /\ files = [t \in TenantNames |-> NoFile]
    /\ users = {Guest, Alice, Bob}
    /\ perms = {[uid |-> Alice.id, perm |-> ADMIN_PERM]}
    /\ sessions = {[uid |-> Alice.id, sid |-> Token(1), expires |-> NullText],
                   [uid |-> Bob.id, sid |-> Token(2), expires |-> NullText]}
    /\ sid_ctr = 2
    /\ now = MaxTzOffset
    /\ tz = 0
    /\ resp = NoResp

\* The sid header of a script request: absent, alice's, bob's, nobody's.
ScriptSids == Sids \cup {Token(2)}
CallerScripts == {<<InsertSql("main")>>, <<SelectAllSql("main"), InsertSql("main")>>}

NextScript ==
    \/ CreateKvTable(KvTenant, FALSE, FALSE, Token(1))
    \/ \E username \in {GUEST_USER, Bob.user}, remove \in BOOLEAN,
          no_read \in BOOLEAN, no_write \in BOOLEAN :
          AdminSetKvPerms(username, {KvTenant}, remove, no_read, no_write)
    \/ \E remove \in BOOLEAN : AdminSetAdmin(Bob.user, remove)
    \/ \E stmts \in CallerScripts, sid \in ScriptSids :
          ExecuteSqlScript(KvTenant, stmts, sid)
SpecScript == InitScript /\ [][NextScript]_vars

\* The read check and the write check of the caller of the last request.
PassesCheck(perm_type, r) ==
    _check_kv_perms(perms, sessions, r.dbid, perm_type, r.sid, now, tz)

\* C19: a script request is answered as not authorized exactly when the caller
\* fails the read check or the write check of the tenant, and then no
\* statement of the script has run and no file has changed.
C19_ScriptNeedsReadAndWrite ==
    [][resp'.op = "execute_sql_script" =>
         /\ resp'.status = "unauthorized"
                <=> ~(PassesCheck("read", resp') /\ PassesCheck("write", resp'))
         /\ resp'.status = "unauthorized" =>
                /\ files' = files
                /\ resp'.log = <<>> /\ resp'.io = {} /\ resp'.enf = {}]_vars

\* A caller who passes the write check and not the read check sent a script to
\* a tenant that exists, and was refused.
C19_Witness ==
    /\ resp.op = "execute_sql_script" /\ resp.status = "unauthorized"
    /\ files[resp.dbid] # NoFile
    /\ PassesCheck("write", resp) /\ ~PassesCheck("read", resp)

-----------------------------------------------------------------------------
(* (9) Every handler that takes a tenant name, with valid and invalid names. *)

NextNames ==
    \/ \E name \in RawNames, sid \in Sids : CreateKvTable(name, FALSE, FALSE, sid)
    \/ \E dbid \in RawNames, sid \in Sids : GetKvItem(dbid, "k1", sid)
    \/ \E dbid \in RawNames, sid \in Sids : SetKvItem(dbid, "k1", PyStr("x"), sid)
    \/ \E dbid \in RawNames, sid \in Sids :
          SetKvBulk(dbid, <<<<"k1", PyStr("x")>>>>, sid)
    \/ \E dbid \in RawNames, sid \in Sids : DeleteKvItem(dbid, "k1", sid)
    \/ \E dbid \in RawNames, sid \in Sids : ExecuteSql(dbid, SelectOneSql("k1"), sid)
    \/ \E dbid \in RawNames, sid \in Sids :
          ExecuteSqlScript(dbid, <<InsertSql("main")>>, sid)
SpecNames == InitProvisioned /\ [][NextNames]_vars

TenantOps ==
    {"create_kv", "get", "set", "set_bulk", "delete", "execute_sql", "execute_sql_script"}
PrincipalReads == {"check_sid", "check_perm", "check_kv_perms"}

\* C20: a request with an invalid tenant name is rejected as an error, and
\* what it did before has no session or permission lookup in the principal
\* store and no access to a tenant file.
C20_InvalidNameBeforeIo ==
    resp.op \in TenantOps /\ ~validate(resp.dbid) =>
        /\ resp.status = "error"
        /\ \A i \in 1..Len(resp.trace) :
               resp.trace[i] \notin PrincipalReads \cup {"open"}

-----------------------------------------------------------------------------
(* Further properties of the handlers, of the sessions and of create.       *)

\* The permission type a handler asks for, and whether the caller of the last
\* request passes the handler's check.
ReadOps == {"get", "execute_sql"}
WriteOps == {"set", "set_bulk", "delete"}
CallerAuthorized(r) ==
    CASE r.op \in ReadOps -> PassesCheck("read", r)
      [] r.op \in WriteOps -> PassesCheck("write", r)
      [] r.op = "execute_sql_script" -> PassesCheck("read", r) /\ PassesCheck("write", r)

\* C21: a caller who does not pass the check of a get, put, bulk put, delete,
\* query or script request is answered "not authorized", whether the tenant
\* exists or not.
C21_UnauthorizedSameOutcome ==
    resp.op \in ReadOps \cup WriteOps \cup {"execute_sql_script"}
        /\ ~CallerAuthorized(resp) => resp.status = "unauthorized"

\* What init_schema leaves of the users table of this state.
GuestAfterInit ==
    LET us == KvUserDb_init_schema(users)
    IN  /\ {u \in us : u.id = GUEST_USER_ID \/ u.user = GUEST_USER} = {Guest}
        /\ KvUserDb_init_schema(us) = us

\* C22: once KvUserDb.init_schema has run the users table holds the guest
\* (id 1, name "anon", empty hash) and no other user with that id or that name,
\* running it again changes nothing, and a login under the guest's name makes
\* no session, whatever the password.
C22_GuestReserved ==
    /\ []GuestAfterInit
    /\ [][resp'.op = "login" /\ resp'.username = GUEST_USER =>
             /\ resp'.status # "ok"
             /\ resp'.session = NoSession
             /\ sessions' = sessions
             /\ Guest \in users']_vars

\* A login under the guest's name was refused while another user holds a
\* session.
C22_Witness ==
    /\ resp.op = "login" /\ resp.username = GUEST_USER /\ resp.status # "ok"
    /\ Guest \in users
    /\ sessions # {}

-----------------------------------------------------------------------------
(* (10) create_kv_table by two admins, with and without a failing grant.    *)

\* The store of InitScript after "admin admin bob".
InitTwoAdmins ==
    /\ az = NoCall
    /\ idn = NoIdentifier
    /\ files = [t \in TenantNames |-> NoFile]
    /\ users = {Guest, Alice, Bob}
    /\ perms = {[uid |-> Alice.id, perm |-> ADMIN_PERM],
                [uid |-> Bob.id, perm |-> ADMIN_PERM]}
    /\ sessions = {[uid |-> Alice.id, sid |-> Token(1), expires |-> NullText],
                   [uid |-> Bob.id, sid |-> Token(2), expires |-> NullText]}
    /\ sid_ctr = 2
    /\ now = MaxTzOffset
    /\ tz = 0
    /\ resp = NoResp

NextCreate ==
    \E name \in RawNames, allow_guest_read \in BOOLEAN, allow_guest_write \in BOOLEAN,
       sid \in ScriptSids :
        CreateKvTable(name, allow_guest_read, allow_guest_write, sid)
SpecCreate == InitTwoAdmins /\ [][NextCreate]_vars

NextCreateFailing ==
    \/ NextCreate
    \/ \E name \in RawNames, sid \in ScriptSids : CreateKvTableGrantsRaise(name, sid)
SpecCreateFailing == InitTwoAdmins /\ [][NextCreateFailing]_vars

\* The users who hold both the read grant and the write grant of a tenant.
Creators(dbid) ==
    {u \in users : /\ u.id # GUEST_USER_ID
                   /\ check_perm(perms, u.id, read_perm(dbid))
                   /\ check_perm(perms, u.id, write_perm(dbid))}
TenantGrants(dbid) == {g \in perms : g.perm \in {read_perm(dbid), write_perm(dbid)}}

\* C23: for every tenant, either its file exists and a creator holds its read
\* and write grants, or neither the file nor a grant of the tenant exists,
\* also after a create that failed part-way.
C23_CreateAllOrNothing ==
    \A dbid \in TenantNames :
        IF files[dbid].exists THEN Creators(dbid) # {} ELSE TenantGrants(dbid) = {}

ExpiryOf(row) == CHOOSE e \in 0..(MaxTime + MaxTtl) : IsoUtc(e) = row.expires
Expired(row, t) == row.expires # NullText /\ ExpiryOf(row) < t

\* The step is a login that returned a session.
LoginOkStep == resp' # resp /\ resp'.op = "login" /\ resp'.status = "ok"

\* C24: right after a successful login the sessions are those of before and
\* the new one, less exactly the ones whose expiry is in the past: no expired
\* session is left, every session not yet expired and every session without
\* expiry is kept; no other step but the deletion of a user removes a session.
C24_LazySweep ==
    [][/\ LoginOkStep =>
            sessions' = {r \in sessions \cup {[uid |-> resp'.session.uid,
                                               sid |-> resp'.session.sid,
                                               expires |-> resp'.session.expires]} :
                            ~Expired(r, now)}
       /\ ~LoginOkStep /\ ~(resp' # resp /\ resp'.op = "admin_delete") =>
            sessions \subseteq sessions']_vars

\* Requests that open a tenant: create, put and get of one key, on both
\* tenants, by every caller.
NextOpen ==
    \/ \E dbid \in TenantNames, sid \in Sids : CreateKvTable(dbid, FALSE, FALSE, sid)
    \/ \E dbid \in TenantNames, sid \in Sids : SetKvItem(dbid, "k1", PyStr("x"), sid)
    \/ \E dbid \in TenantNames, sid \in Sids : GetKvItem(dbid, "k1", sid)
SpecOpen == InitProvisioned /\ [][NextOpen]_vars

\* C25: a request that opens a tenant whose file exists runs init_schema
\* again without error and leaves every file as it was, unless its own
\* statement writes: a get is answered and changes nothing, a refused put, bulk
\* put or delete changes nothing; a file comes to exist only by a create that
\* returned true, and db_exists is true exactly for the tenants created.
C25_OpenKeepsRows ==
    /\ [](\A dbid \in TenantNames : db_exists(dbid, files) <=> Creators(dbid) # {})
    /\ [][/\ resp'.op = "get" /\ files[resp'.dbid].exists =>
                /\ files' = files
                /\ CallerAuthorized(resp') => resp'.status = "ok"
          /\ resp'.op \in WriteOps /\ files[resp'.dbid].exists
                /\ resp'.status = "unauthorized" => files' = files
          /\ \A dbid \in TenantNames :
                db_exists(dbid, files') # db_exists(dbid, files) =>
                    resp'.op = "create_kv" /\ resp'.created /\ resp'.dbid = dbid]_vars

\* A get found a row: the tenant was opened by the put that stored it and
\* again by this get.
C25_Witness ==
    /\ resp.op = "get" /\ resp.status = "ok" /\ resp.exists
    /\ db_exists(resp.dbid, files)

\* C26: a successful login of a user who holds a session that has not expired
\* returns another token and leaves that session valid: check_sid gives the
\* user's id for the old token and for the new one.
C26_ConcurrentSessions ==
    [][LoginOkStep =>
         \A r \in sessions :
             r.uid = resp'.session.uid /\ ~Expired(r, now) =>
                 /\ r.sid # resp'.session.sid
                 /\ check_sid(sessions', r.sid, now', tz') = r.uid
                 /\ check_sid(sessions', resp'.session.sid, now', tz') = r.uid]_vars

-----------------------------------------------------------------------------
(* (12) Write requests of a user whose write grants the admin takes away.   *)

\* The store of InitScript after "admin table bob ta tb --no-read": bob holds
\* the write grant of both tenant names and a session with no expiry, and no
\* tenant has been created yet.
InitRevoke ==
    /\ az = NoCall
    /\ idn = NoIdentifier
    /\ files = [t \in TenantNames |-> NoFile]
    /\ users = {Guest, Alice, Bob}
    /\ perms = {[uid |-> Alice.id, perm |-> ADMIN_PERM]}
                 \cup {[uid |-> Bob.id, perm |-> write_perm(t)] : t \in TenantNames}
    /\ sessions = {[uid |-> Alice.id, sid |-> Token(1), expires |-> NullText],
                   [uid |-> Bob.id, sid |-> Token(2), expires |-> NullText]}
    /\ sid_ctr = 2
    /\ now = MaxTzOffset
    /\ tz = 0
    /\ resp = NoResp

\* alice creates the tenant "ta" and nobody creates "tb"; the admin gives and
\* takes grants of bob and of the guest; bob writes with his session.
NextRevoke ==
    \/ CreateKvTable(KvTenant, FALSE, FALSE, Token(1))
    \/ \E username \in {GUEST_USER, Bob.user}, t \in TenantNames,
          remove \in BOOLEAN, no_read \in BOOLEAN, no_write \in BOOLEAN :
          AdminSetKvPerms(username, {t}, remove, no_read, no_write)
    \/ \E t \in TenantNames : SetKvItem(t, "k1", PyStr("x"), Token(2))
    \/ \E t \in TenantNames : SetKvBulk(t, <<<<"k1", PyStr("x")>>>>, Token(2))
    \/ \E t \in TenantNames : DeleteKvItem(t, "k1", Token(2))
    \/ \E t \in TenantNames, stmts \in CallerScripts :
          ExecuteSqlScript(t, stmts, Token(2))
SpecRevoke == InitRevoke /\ [][NextRevoke]_vars

\* The user of the session of request r holds neither the write grant of the
\* tenant of r nor the admin grant, and the guest holds no write grant on it.
WriteRevoked(ps, ss, r, t, offset) ==
    LET uid == check_sid(ss, r.sid, t, offset)
    IN  /\ uid # NoUid
        /\ ~check_perm(ps, uid, write_perm(r.dbid))
        /\ ~check_perm(ps, uid, ADMIN_PERM)
        /\ ~check_perm(ps, GUEST_USER_ID, write_perm(r.dbid))

\* C27: a put, bulk put, delete or script request that carries the valid
\* session of a user whose write grant on the tenant has been taken away (the
\* user holds it at the start, is no admin, and the guest holds no write grant)
\* is answered "not authorized" and writes nothing.
C27_RevokedWriteRefused ==
    [][resp' # resp /\ resp'.op \in WriteOps \cup {"execute_sql_script"}
         /\ WriteRevoked(perms, sessions, resp', now, tz)
         => resp'.status = "unauthorized" /\ files' = files]_vars

-----------------------------------------------------------------------------
(* (13) The request-level check over grants, tokens and time.                *)

\* The store after "admin create alice pw1" on a host whose local time is tz
\* ticks off UTC: no grant and no session yet.
InitCheck ==
    /\ az = NoCall
    /\ idn = NoIdentifier
    /\ files = [t \in TenantNames |-> NoFile]
    /\ users = {Guest, Alice}
    /\ perms = {}
    /\ sessions = {}
    /\ sid_ctr = 0
    /\ now = MaxTzOffset
    /\ tz \in TzOffsets
    /\ resp = NoResp

\* alice logs in with and without a duration, time passes, the admin gives and
\* takes grants of alice and of the guest, and requests arrive with no token,
\* a token of alice or a token nobody holds.
NextCheck ==
    \/ \E seconds \in {NoSeconds, Seconds(1)} : Login(Alice.user, "pw1", seconds)
    \/ Tick
    \/ \E username \in {GUEST_USER, Alice.user}, remove \in BOOLEAN,
          no_read \in BOOLEAN, no_write \in BOOLEAN :
          AdminSetKvPerms(username, {KvTenant}, remove, no_read, no_write)
    \/ \E remove \in BOOLEAN : AdminSetAdmin(Alice.user, remove)
    \/ \E sid \in ScriptSids : GetKvItem(KvTenant, "k1", sid)
SpecCheck == InitCheck /\ [][NextCheck]_vars

\* The grant "<tenant>_P".
kv_perm(dbid, perm_type) ==
    IF perm_type = "read" THEN read_perm(dbid) ELSE write_perm(dbid)

\* The token is missing, or no session has it, or the session that has it is
\* past its expiry.
TokenWithoutSession(sid) ==
    \/ sid = None
    \/ \A r \in sessions : r.sid # sid
    \/ \E r \in sessions : r.sid = sid /\ Expired(r, now)

\* C28: the check of a tenant operation of type P passes exactly when the guest
\* holds "<tenant>_P", or check_sid accepts the token of the request and its
\* user holds "<tenant>_P" or the admin grant; with a missing, unknown or
\* expired token it passes only if the guest holds "<tenant>_P".
C28_CheckRule ==
    \A dbid \in TenantNames, perm_type \in {"read", "write"}, sid \in ScriptSids :
        LET passes == _check_kv_perms(perms, sessions, dbid, perm_type, sid, now, tz)
            guest == check_perm(perms, GUEST_USER_ID, kv_perm(dbid, perm_type))
            uid == check_sid(sessions, sid, now, tz)
        IN  /\ passes <=> \/ guest
                          \/ /\ uid # NoUid
                             /\ \/ check_perm(perms, uid, kv_perm(dbid, perm_type))
                                \/ check_perm(perms, uid, ADMIN_PERM)
            /\ TokenWithoutSession(sid) /\ passes => guest

====
